---- MODULE Spec2Model ----
(***************************************************************************)
(* Export orchestration of the clip editor: ExportHandler (exportHandler)  *)
(* driving the process-wide VideoProcessor (videoProcessor) and its single *)
(* FFmpeg engine.                                                          *)
(*                                                                         *)
(* JavaScript runs one task at a time: the code between two awaits of real *)
(* I/O (a fetch, a message to the engine's worker) runs without            *)
(* interleaving, and so does the chain of promise continuations that       *)
(* follows the completion of such an I/O.  Each action below is one such   *)
(* task: a call made by the UI, or the completion (success or failure) of  *)
(* the I/O a call is suspended on, followed by everything the code does    *)
(* until it suspends on the next I/O or settles.                           *)
(*                                                                         *)
(* The module also holds the components around an export: the export      *)
(* settings panel (ExportPanel), the selection editor (useVideoEditor,     *)
(* createClipSegment), the command builder (buildFFmpegCommand) and the    *)
(* App component (current media, candidate list, export banner).  Each has *)
(* its own specification; the state of the others stays as initialised.    *)
(***************************************************************************)
EXTENDS Integers, Sequences, FiniteSets, TLC

\* Bounds of the model.
MaxJobs == 2      \* calls made to the exported exportHandler
MaxClips == 3     \* clips of one exportMultipleClips call
MaxTicks == 2     \* 'progress' notifications the engine sends in a run
MaxFaults == 3    \* failures of fetches, engine operations and downloads in a run

\* cdnSources has three entries.
NumSources == 3

Jobs == 1..MaxJobs
Sources == 1..NumSources
\* Progress ratios the engine may report, in percent.
Ratios == {0, 50, 100}

VARIABLES
    isLoaded,             \* VideoProcessor.isLoaded
    isFFmpegInitialized,  \* ExportHandler.isFFmpegInitialized
    listeners,            \* the engine's 'progress' listeners, per call that owns the callback
    files,                \* names in the engine's file store
    instances,            \* sources of the successful ffmpeg.load calls, in order
    ticks,                \* progress notifications sent so far
    faults,               \* failures that have happened so far
    job                   \* per call: position, arguments, and what it has done

VARIABLES
    exportSettings,       \* ExportPanel's exportSettings; the settings given to an export
    media,                \* the MediaFile being edited (dimensions, type, duration)
    containerRect,        \* bounding rectangle of the editor's video area
    editor,               \* state of the useVideoEditor hook
    creating,             \* the latest createClipSegment call
    clip,                 \* result of the latest createClipSegment call; the clip given to the builder
    command,              \* the command built for the clip, if any
    run                   \* what the engine did with the command, in order

VARIABLES
    app                   \* state of the App component and of what it has started

handlerVars == <<isLoaded, isFFmpegInitialized, listeners, files, instances, ticks, faults, job>>
editorVars == <<media, containerRect, editor, creating>>
builderVars == <<clip, command, run>>

vars == <<handlerVars, exportSettings, editorVars, builderVars, app>>

----------------------------------------------------------------------------
\* Values

\* ExportProgress, the value handed to onProgress.  message is the list of the
\* template's parts: a template name, followed by the interpolated error
\* message for the two failure templates.
ExportProgress(st, ci, ct, p, m) ==
    [status |-> st, clipIndex |-> ci, clipTotal |-> ct,
     processingProgress |-> p, message |-> m]

\* A call that has not been made.  Besides its position (pc, clip, src) a call
\* carries the record of what it has done and of what its onProgress was given:
\*   ops        the operations it invoked, in order;
\*   outputs    the Blobs handed to the browser for download;
\*   error      the message of the error its promise rejected with;
\*   delivered  the events of the latest task that delivered any;
\*   statuses   the statuses delivered so far, in order, consecutive repeats
\*              of 'preparing' or of 'processing' written once;
\*   reported   the message of the 'error' event delivered.
NoJob ==
    [kind |-> "none", total |-> 0, pc |-> "idle", clip |-> 0, src |-> 0,
     ops |-> <<>>, outputs |-> 0, error |-> <<>>,
     delivered |-> <<>>, statuses |-> <<>>, reported |-> <<>>]

Terminal == {"completed", "error"}

\* The statuses after one more event.
Observed(statuses, st) ==
    IF Len(statuses) > 0 /\ statuses[Len(statuses)] = st /\ st \notin Terminal
    THEN statuses
    ELSE Append(statuses, st)

\* onProgress?.(ev)
Emit(r, ev) ==
    [r EXCEPT !.delivered = Append(@, ev),
              !.statuses = Observed(@, ev.status),
              !.reported = IF ev.status = "error" THEN ev.message ELSE @]

\* A task of the call begins: nothing delivered by it yet.
Task(r) == [r EXCEPT !.delivered = <<>>]

\* The call invokes operation op for clip arg (0: for no clip).
Invoke(r, op, arg) ==
    [r EXCEPT !.ops = Append(@, [op |-> op, arg |-> arg])]

----------------------------------------------------------------------------
\* The callbacks the orchestrator hands down, and its catch blocks

\* The load callback of exportSingleClip without its scaling by 50.
InitProgressUnscaled(r, pct) ==
    ExportProgress("preparing", IF r.kind = "single" THEN 1 ELSE 0, r.total,
                   pct, <<"loading">>)

\* The (ratio) => ... callback given to initializeFFmpeg; pct is the ratio in
\* percent.  exportSingleClip scales it by 50, exportMultipleClips by 100.
InitProgress(r, pct) ==
    IF r.kind = "single"
    THEN ExportProgress("preparing", 1, 1, (pct * 50) \div 100, <<"loading">>)
    ELSE ExportProgress("preparing", 0, r.total, pct, <<"loading">>)

\* The (progress) => ... callback given to processVideoClip for clip c.
ClipProgress(r, c, pct) ==
    IF r.kind = "single"
    THEN ExportProgress("processing", 1, 1, pct, <<"processingPercent">>)
    ELSE ExportProgress("processing", c, r.total, pct, <<"processingPercent">>)

\* A catch block that rethrows without telling onProgress.
CatchSilently(r, e) ==
    [r EXCEPT !.pc = "rejected", !.error = e]

\* The catch block of exportSingleClip / exportMultipleClips: emit 'error'
\* with the error's message interpolated, then rethrow the same error.
Catch(r, e) ==
    [Emit(r, IF r.kind = "single"
             THEN ExportProgress("error", 1, 1, 0, <<"exportFailed">> \o e)
             ELSE ExportProgress("error", 0, r.total, 0, <<"batchFailed">> \o e))
        EXCEPT !.pc = "rejected", !.error = e]

\* initialize found no source that loads: its own error, wrapped by its catch
\* block and once more by initializeFFmpeg's.
InitFailure ==
    <<"ffmpegInitFailed", "ffmpegInitFailed", "allSourcesFailed", "checkNetwork">>

----------------------------------------------------------------------------
\* Code run between suspensions

\* videoProcessor.processVideoClip up to its first suspension (fetchFile and
\* writeFile of the input): it throws outside its try block when the engine
\* is not loaded.
ProcessVideoClip(r, c, loaded) ==
    IF ~loaded
    THEN Catch(r, <<"ffmpegNotInitialized">>)
    ELSE [Invoke(r, "writeFile", c) EXCEPT !.pc = "writeFile", !.clip = c]

\* The 'processing' event that opens clip c, then processVideoClip.
StartClip(r, c, loaded) ==
    ProcessVideoClip(
        Emit(r, ExportProgress("processing",
                               IF r.kind = "single" THEN 1 ELSE c,
                               r.total, 0, <<"processingClip">>)),
        c, loaded)

\* The for loop of initialize entering source s.
TrySource(r, s) ==
    [Emit(r, InitProgress(r, 10)) EXCEPT !.pc = "fetchCore", !.src = s]

\* The inner catch of initialize: continue with the next source; after the
\* last one the failure goes up through initializeFFmpeg to the export's catch.
SourceFailed(r) ==
    IF r.src < NumSources
    THEN TrySource(r, r.src + 1)
    ELSE Catch(r, InitFailure)

\* The catch block of processVideoClip wraps the cause; the export's catch
\* block gets the wrapped error.  A batch that went on with its next clip
\* instead would be ProcessFailedContinue.
ProcessFailedContinue(r, cause) ==
    IF r.kind = "batch" /\ r.clip < r.total
    THEN StartClip(r, r.clip + 1, TRUE)
    ELSE Catch(r, <<"videoProcessingFailed">> \o cause)

ProcessFailed(r, cause) == Catch(r, <<"videoProcessingFailed">> \o cause)

\* A batch that started its next clip before handing over the Blob it holds,
\* leaving the downloads for later.
DeliverLater(r, ok, loaded) ==
    IF ~ok
    THEN Catch(Invoke(r, "downloadFile", r.clip), <<"downloadFailed">>)
    ELSE IF r.kind = "batch" /\ r.clip < r.total
         THEN StartClip(r, r.clip + 1, loaded)
         ELSE [Emit([Invoke(r, "downloadFile", r.clip) EXCEPT !.outputs = @ + r.total],
                    ExportProgress("completed", r.total, r.total, 100, <<"exportDone">>))
                  EXCEPT !.pc = "resolved"]

\* What follows a processVideoClip that returned its Blob: downloadFile, and
\* then the 'completed' event or the next clip of the batch.
Deliver(r, ok, loaded) ==
    LET r1 == Invoke(r, "downloadFile", r.clip) IN
    IF ~ok
    THEN Catch(r1, <<"downloadFailed">>)
    ELSE LET r2 == [r1 EXCEPT !.outputs = @ + 1] IN
         IF r.kind = "batch" /\ r.clip < r.total
         THEN StartClip(r2, r.clip + 1, loaded)
         ELSE [Emit(r2, ExportProgress("completed", r.total, r.total, 100,
                                       <<"exportDone">>))
                  EXCEPT !.pc = "resolved"]

----------------------------------------------------------------------------
\* Numbers and optional values

\* A value that may be undefined / null: None, or Some(x).
None == <<>>
Some(x) == <<x>>

\* JavaScript numbers that are not whole (coordinates, scales, ratios) are
\* fractions <<n, d>> in lowest terms with d > 0; times are whole milliseconds.
RECURSIVE GCD(_, _)
GCD(a, b) == IF b = 0 THEN a ELSE GCD(b, a % b)

Abs(n) == IF n < 0 THEN -n ELSE n

Frac(n, d) ==
    LET g == GCD(Abs(n), Abs(d))
        s == IF d < 0 THEN -1 ELSE 1
    IN  <<(s * n) \div g, (s * d) \div g>>

Whole(n) == <<n, 1>>
Add(a, b) == Frac(a[1] * b[2] + b[1] * a[2], a[2] * b[2])
Sub(a, b) == Frac(a[1] * b[2] - b[1] * a[2], a[2] * b[2])
Mul(a, b) == Frac(a[1] * b[1], a[2] * b[2])
Div(a, b) == Frac(a[1] * b[2], a[2] * b[1])
Less(a, b) == a[1] * b[2] < b[1] * a[2]
MathMin(a, b) == IF Less(b, a) THEN b ELSE a
MathMax(a, b) == IF Less(a, b) THEN b ELSE a
\* Math.round: the nearest whole number, halves rounded up.
MathRound(a) == (2 * a[1] + a[2]) \div (2 * a[2])
\* Truncation toward zero, which Math.round is not.
MathTrunc(a) == IF a[1] < 0 THEN -((-a[1]) \div a[2]) ELSE a[1] \div a[2]

----------------------------------------------------------------------------
\* Constants of the application

\* EXPORT_SETTINGS
QUALITY_PRESETS == [high |-> 100, medium |-> 70, low |-> 40]
DEFAULT_FPS == [mp4 |-> 30, gif |-> 15]

\* CROP_PRESETS, by ratio (width / height); 0 is the free selection.
CROP_PRESETS ==
    <<Whole(0), Whole(1), Frac(16, 9), Frac(9, 16), Frac(4, 3), Frac(21, 9)>>

\* Side of the editor's video area, in pixels.
Side == 3

\* The media a run may edit: a wide video (letterboxed in the video area), a
\* tall gif (pillarboxed) and a still image, which has no duration.
Video == [type |-> "video", dimensions |-> [width |-> 2 * Side, height |-> Side - 1], duration |-> 300]
Gif == [type |-> "gif", dimensions |-> [width |-> Side - 1, height |-> Side], duration |-> 300]
Image == [type |-> "image", dimensions |-> [width |-> Side, height |-> Side], duration |-> 0]
Medias == {Video, Gif, Image}

\* The settings ExportPanel starts with; fps is not set.
InitialSettings ==
    [format |-> "mp4", quality |-> QUALITY_PRESETS.medium,
     preset |-> Some("medium"), fps |-> None]

\* The state useVideoEditor starts with for a medium of the given duration.
InitialEditor(videoDuration) ==
    [selectedTimeRange |->
        IF videoDuration > 0
        THEN Some([start |-> 0,
                   end |-> IF videoDuration < 10000 THEN videoDuration ELSE 10000])
        ELSE None,
     selectedCropArea |-> None,
     selectedPreset |-> CROP_PRESETS[1],
     isDragging |-> FALSE,
     dragStart |-> None]

\* App before any upload.  Besides the component's state (currentMedia,
\* clipSegments, activeTab, exportProgress) it holds what the component has
\* started and what its children keep:
\*   panelExporting  isExporting of the mounted ExportPanel;
\*   adding     media ids of the createClipSegment calls not yet returned;
\*   exports    the handleSingleExport / handleBatchExport calls made: the
\*              media and clips given to the export, whether its promise is
\*              still awaited, and whether the mounted panel awaits it;
\*   timers     reset timers scheduled and not yet fired;
\*   uploads, created   media and segments made so far (their ids).
InitialApp ==
    [currentMedia |-> None, clipSegments |-> <<>>, activeTab |-> "upload",
     exportProgress |-> [isExporting |-> FALSE, progress |-> 0, status |-> "preparing"],
     panelExporting |-> FALSE, adding |-> <<>>, exports |-> <<>>, timers |-> 0,
     uploads |-> 0, created |-> 0]

----------------------------------------------------------------------------
\* State

\* Successful instantiations of the engine so far.
Gen == Len(instances)

HandlerInit ==
    /\ isLoaded = FALSE
    /\ isFFmpegInitialized = FALSE
    /\ listeners = [j \in Jobs |-> <<>>]
    /\ files = {}
    /\ instances = <<>>
    /\ ticks = 0
    /\ faults = 0
    /\ job = [j \in Jobs |-> NoJob]

\* No createClipSegment call made yet.  A call keeps what it was made with and
\* what became of it:
\*   pc         "thumbnail" while suspended on the thumbnail generator, "null"
\*              once it returned null, "done" once it returned a segment,
\*              "rejected" had it thrown;
\*   timeRange  the selected time range it was made with;
\*   selection  the display-space crop selection it was made with, if any;
\*   thumbnail  "generated" or "failed", once the generator has settled;
\*   edits      handler calls made while it was suspended;
\*   made       segments returned so far;
\*   thumbnailTime  the time it asked the thumbnail generator for;
\*   drawn      the frame time and source region generateCroppedThumbnail drew.
NoCall ==
    [pc |-> "idle", timeRange |-> None, selection |-> None,
     thumbnail |-> "none", edits |-> 0, made |-> 0,
     thumbnailTime |-> None, drawn |-> None]

\* The editor opened on medium m, nothing created yet.
EditorInit(m) ==
    /\ media = m
    /\ containerRect = [width |-> Side, height |-> Side]
    /\ editor = InitialEditor(m.duration)
    /\ creating = NoCall

BuilderInit ==
    /\ clip = None
    /\ command = None
    /\ run = <<>>

Init ==
    /\ HandlerInit
    /\ app = InitialApp
    /\ exportSettings = InitialSettings
    /\ EditorInit(Video)
    /\ BuilderInit

\* An awaited operation settles: it succeeds only when it can, and a failure
\* that is not forced counts against the run's budget of failures.
Settles(ok, possible) ==
    /\ ok => possible
    /\ IF ok \/ ~possible
       THEN UNCHANGED faults
       ELSE faults < MaxFaults /\ faults' = faults + 1

\* Calls are numbered in the order they are made.
CanCall(j) ==
    /\ job[j].pc = "idle"
    /\ j > 1 => job[j - 1].pc # "idle"

\* ffmpeg.on('progress', ...): the listeners are never removed.  Listeners of
\* different calls invoke different callbacks, so only the order among the
\* listeners of one call is kept.
On(j, kind, c) ==
    listeners' = [listeners EXCEPT ![j] = Append(@, [kind |-> kind, clip |-> c])]

\* An export that goes to its first clip without any readiness check.
StartUnchecked(j, r) ==
    /\ job' = [job EXCEPT ![j] = StartClip(r, 1, TRUE)]
    /\ UNCHANGED <<isFFmpegInitialized, listeners>>

\* The readiness check of an export and what it leads to: straight to the
\* first clip when isFFmpegInitialized; otherwise initializeFFmpeg, whose
\* initialize returns at once when isLoaded, and else registers its
\* 'progress' listener and enters the first source.
EnsureThenStart(j, r) ==
    IF isFFmpegInitialized
    THEN /\ job' = [job EXCEPT ![j] = StartClip(r, 1, isLoaded)]
         /\ UNCHANGED <<isFFmpegInitialized, listeners>>
    ELSE LET r1 == Invoke(r, "initializeFFmpeg", 0) IN
         IF isLoaded
         THEN /\ isFFmpegInitialized' = TRUE
              /\ job' = [job EXCEPT ![j] = StartClip(r1, 1, isLoaded)]
              /\ UNCHANGED listeners
         ELSE /\ On(j, "init", 0)
              /\ job' = [job EXCEPT ![j] = TrySource(r1, 1)]
              /\ UNCHANGED isFFmpegInitialized

----------------------------------------------------------------------------
\* Calls

ExportSingleClip(j) ==
    /\ CanCall(j)
    /\ LET r0 == [NoJob EXCEPT !.kind = "single", !.total = 1] IN
       EnsureThenStart(j, Emit(r0, ExportProgress("preparing", 1, 1, 0, <<"initializing">>)))
    /\ UNCHANGED <<isLoaded, files, instances, ticks, faults>>
    /\ UNCHANGED <<exportSettings, editorVars, builderVars, app>>

ExportMultipleClips(j, n) ==
    /\ CanCall(j)
    /\ LET r0 == [NoJob EXCEPT !.kind = "batch", !.total = n] IN
       EnsureThenStart(j, IF isFFmpegInitialized THEN r0
                          ELSE Emit(r0, ExportProgress("preparing", 0, n, 0, <<"initializing">>)))
    /\ UNCHANGED <<isLoaded, files, instances, ticks, faults>>
    /\ UNCHANGED <<exportSettings, editorVars, builderVars, app>>

----------------------------------------------------------------------------
\* Completions of the bootstrap's suspensions

\* toBlobURL of ffmpeg-core.js settles.
FetchCoreDone(j, ok) ==
    /\ job[j].pc = "fetchCore"
    /\ Settles(ok, TRUE)
    /\ LET r == Task(job[j]) IN
       job' = [job EXCEPT ![j] =
                 IF ok
                 THEN [Emit(r, InitProgress(r, 30)) EXCEPT !.pc = "fetchWasm"]
                 ELSE SourceFailed(r)]
    /\ UNCHANGED <<isLoaded, isFFmpegInitialized, listeners, files, instances, ticks>>
    /\ UNCHANGED <<exportSettings, editorVars, builderVars, app>>

\* toBlobURL of ffmpeg-core.wasm settles.
FetchWasmDone(j, ok) ==
    /\ job[j].pc = "fetchWasm"
    /\ Settles(ok, TRUE)
    /\ LET r == Task(job[j]) IN
       job' = [job EXCEPT ![j] =
                 IF ok
                 THEN [Emit(r, InitProgress(r, 60)) EXCEPT !.pc = "load"]
                 ELSE SourceFailed(r)]
    /\ UNCHANGED <<isLoaded, isFFmpegInitialized, listeners, files, instances, ticks>>
    /\ UNCHANGED <<exportSettings, editorVars, builderVars, app>>

\* ffmpeg.load settles.  On success initialize sets isLoaded, initializeFFmpeg
\* sets isFFmpegInitialized and the export goes on to its first clip.  What a
\* load on an already loaded engine does to the file store is the library's
\* business: the store is kept or starts empty.
LoadDone(j, ok) ==
    /\ job[j].pc = "load"
    /\ Settles(ok, TRUE)
    /\ LET r == Task(job[j]) IN
       IF ok
       THEN /\ instances' = Append(instances, r.src)
            /\ isLoaded' = TRUE
            /\ isFFmpegInitialized' = TRUE
            /\ files' \in (IF Gen = 0 THEN {files} ELSE {files, {}})
            /\ job' = [job EXCEPT ![j] =
                         StartClip(Emit(r, InitProgress(r, 100)), 1, TRUE)]
       ELSE /\ job' = [job EXCEPT ![j] = SourceFailed(r)]
            /\ UNCHANGED <<isLoaded, isFFmpegInitialized, files, instances>>
    /\ UNCHANGED <<listeners, ticks>>
    /\ UNCHANGED <<exportSettings, editorVars, builderVars, app>>

----------------------------------------------------------------------------
\* Completions of processVideoClip's suspensions

\* writeFile of the input settles; on success the clip's 'progress' listener
\* is registered and exec is sent.
WriteFileDone(j, ok) ==
    /\ job[j].pc = "writeFile"
    /\ Settles(ok, TRUE)
    /\ LET r == Task(job[j]) IN
       IF ok
       THEN /\ files' = files \cup {"input"}
            /\ On(j, "clip", r.clip)
            /\ job' = [job EXCEPT ![j] =
                         [Invoke(r, "exec", r.clip) EXCEPT !.pc = "exec"]]
       ELSE /\ job' = [job EXCEPT ![j] = ProcessFailed(r, <<"writeFile">>)]
            /\ UNCHANGED <<files, listeners>>
    /\ UNCHANGED <<isLoaded, isFFmpegInitialized, instances, ticks>>
    /\ UNCHANGED <<exportSettings, editorVars, builderVars, app>>

\* What the listeners owned by call k hand to its onProgress on a notification.
Notified(k, pct) ==
    [i \in 1..Len(listeners[k]) |->
        IF listeners[k][i].kind = "init"
        THEN InitProgress(job[k], pct)
        ELSE ClipProgress(job[k], listeners[k][i].clip, pct)]

\* r after its onProgress was given the events evs, in order.
RECURSIVE EmitAll(_, _)
EmitAll(r, evs) ==
    IF evs = <<>> THEN r ELSE EmitAll(Emit(r, Head(evs)), Tail(evs))

\* The engine sends a 'progress' notification while a command executes: every
\* registered listener runs, whatever has become of the call it belongs to.
Progress(pct) ==
    /\ \E j \in Jobs : job[j].pc = "exec"
    /\ ticks < MaxTicks
    /\ ticks' = ticks + 1
    /\ job' = [k \in Jobs |->
                 IF listeners[k] = <<>> THEN job[k]
                 ELSE EmitAll(Task(job[k]), Notified(k, pct))]
    /\ UNCHANGED <<isLoaded, isFFmpegInitialized, listeners, files, instances, faults>>
    /\ UNCHANGED <<exportSettings, editorVars, builderVars, app>>

\* exec settles.
ExecDone(j, ok) ==
    /\ job[j].pc = "exec"
    /\ Settles(ok, TRUE)
    /\ LET r == Task(job[j]) IN
       IF ok
       THEN /\ files' = files \cup {"output"}
            /\ job' = [job EXCEPT ![j] =
                         [Invoke(r, "readFile", r.clip) EXCEPT !.pc = "readFile"]]
       ELSE /\ job' = [job EXCEPT ![j] = ProcessFailed(r, <<"exec">>)]
            /\ UNCHANGED files
    /\ UNCHANGED <<isLoaded, isFFmpegInitialized, listeners, instances, ticks>>
    /\ UNCHANGED <<exportSettings, editorVars, builderVars, app>>

\* readFile of the output settles; it cannot succeed on a missing file.
ReadFileDone(j, ok) ==
    /\ job[j].pc = "readFile"
    /\ Settles(ok, "output" \in files)
    /\ LET r == Task(job[j]) IN
       job' = [job EXCEPT ![j] =
                 IF ok
                 THEN [Invoke(r, "deleteInput", r.clip) EXCEPT !.pc = "deleteInput"]
                 ELSE ProcessFailed(r, <<"readFile">>)]
    /\ UNCHANGED <<isLoaded, isFFmpegInitialized, listeners, files, instances, ticks>>
    /\ UNCHANGED <<exportSettings, editorVars, builderVars, app>>

\* deleteFile of the input settles.
DeleteInputDone(j, ok) ==
    /\ job[j].pc = "deleteInput"
    /\ Settles(ok, "input" \in files)
    /\ files' = IF ok THEN files \ {"input"} ELSE files
    /\ LET r == Task(job[j]) IN
       job' = [job EXCEPT ![j] =
                 IF ok
                 THEN [Invoke(r, "deleteOutput", r.clip) EXCEPT !.pc = "deleteOutput"]
                 ELSE ProcessFailed(r, <<"deleteFile">>)]
    /\ UNCHANGED <<isLoaded, isFFmpegInitialized, listeners, instances, ticks>>
    /\ UNCHANGED <<exportSettings, editorVars, builderVars, app>>

\* deleteFile of the output settles; processVideoClip then returns the Blob.
\* downloadFile has no suspension of its own, so the hand-over to the browser
\* (which may throw) and what follows it belong to the same task.
DeleteOutputDone(j, ok, delivered) ==
    /\ job[j].pc = "deleteOutput"
    /\ ok => "output" \in files
    /\ files' = IF ok THEN files \ {"output"} ELSE files
    /\ LET r == Task(job[j]) IN
       IF ok
       THEN /\ Settles(delivered, TRUE)
            /\ job' = [job EXCEPT ![j] = Deliver(r, delivered, isLoaded)]
       ELSE /\ delivered = FALSE
            /\ Settles(FALSE, "output" \in files)
            /\ job' = [job EXCEPT ![j] = ProcessFailed(r, <<"deleteFile">>)]
    /\ UNCHANGED <<isLoaded, isFFmpegInitialized, listeners, instances, ticks>>
    /\ UNCHANGED <<exportSettings, editorVars, builderVars, app>>

----------------------------------------------------------------------------

Next ==
    \/ \E j \in Jobs : ExportSingleClip(j)
    \/ \E j \in Jobs, n \in 1..MaxClips : ExportMultipleClips(j, n)
    \/ \E j \in Jobs, ok \in BOOLEAN : FetchCoreDone(j, ok)
    \/ \E j \in Jobs, ok \in BOOLEAN : FetchWasmDone(j, ok)
    \/ \E j \in Jobs, ok \in BOOLEAN : LoadDone(j, ok)
    \/ \E j \in Jobs, ok \in BOOLEAN : WriteFileDone(j, ok)
    \/ \E pct \in Ratios : Progress(pct)
    \/ \E j \in Jobs, ok \in BOOLEAN : ExecDone(j, ok)
    \/ \E j \in Jobs, ok \in BOOLEAN : ReadFileDone(j, ok)
    \/ \E j \in Jobs, ok \in BOOLEAN : DeleteInputDone(j, ok)
    \/ \E j \in Jobs, ok, delivered \in BOOLEAN : DeleteOutputDone(j, ok, delivered)

Spec == Init /\ [][Next]_vars

----------------------------------------------------------------------------
\* The behaviours in which the caller makes a call only once every earlier
\* call has settled.
NextSerial ==
    /\ Next
    /\ \A j \in Jobs :
         (job[j].pc = "idle" /\ job'[j].pc # "idle")
         => \A k \in Jobs \ {j} : job[k].pc \in {"idle", "resolved", "rejected"}

SpecSerial == Init /\ [][NextSerial]_vars

----------------------------------------------------------------------------
\* Properties

\* Positions of a call inside initialize's loading, and between the write of
\* its input and the read-back of its output.
Bootstrapping == {"fetchCore", "fetchWasm", "load"}
Transcoding == {"writeFile", "exec", "readFile"}
Settled == {"resolved", "rejected"}

\* The list m occurs in the list msg, as `${...}` puts a message into another.
Contains(msg, m) ==
    \E k \in 1..(Len(msg) - Len(m) + 1) : SubSeq(msg, k, k + Len(m) - 1) = m

Last(seq) == seq[Len(seq)]

\* The error of a batch whose transcode threw.
ExecFailure == <<"videoProcessingFailed", "exec">>

\* What a batch whose clip k has failed in its transcode must have done: k-1
\* outputs delivered and nothing invoked for a later clip.
AbortedAt(r, k) ==
    /\ r.outputs = k - 1
    /\ \A i \in 1..Len(r.ops) : r.ops[i].arg <= k

\* C1: batch abort-on-failure.  When the transcode (exec) of clip k of an
\* exportMultipleClips call throws, the call rejects in that same task, the
\* last event its onProgress was given is 'error', exactly k-1 outputs have
\* been delivered and no operation has been invoked for a clip after k; and
\* from then on the call delivers no output and invokes nothing more.
C1_BatchAbortOnFailure ==
    /\ [][\A j \in Jobs :
            (/\ job[j].kind = "batch"
             /\ job[j].pc = "exec"
             /\ job'[j].pc \notin {"exec", "readFile"})
            => /\ job'[j].pc = "rejected"
               /\ job'[j].error = ExecFailure
               /\ job'[j].delivered # <<>>
               /\ Last(job'[j].delivered).status = "error"
               /\ AbortedAt(job'[j], job[j].clip)]_vars
    /\ [](\A j \in Jobs :
            (job[j].kind = "batch" /\ job[j].pc = "rejected" /\ job[j].error = ExecFailure)
            => AbortedAt(job[j], job[j].clip))

\* A batch of three clips whose second transcode threw, after one output.
C1_Witness ==
    \E j \in Jobs :
        /\ job[j].kind = "batch" /\ job[j].total = 3
        /\ job[j].pc = "rejected" /\ job[j].error = ExecFailure
        /\ job[j].clip = 2 /\ job[j].outputs = 1
        /\ Last(job[j].statuses) = "error"

\* C2: at most one active transcode.  At no time are two calls between the
\* write of their input buffer and the read-back of their output.
C2_AtMostOneActiveTranscode ==
    Cardinality({j \in Jobs : job[j].pc \in Transcoding}) <= 1

\* C3: single in-flight bootstrap.  At no time are two calls inside
\* initialize's fetching and instantiation, and the engine is instantiated
\* successfully at most once.
C3_SingleInFlightBootstrap ==
    /\ Cardinality({j \in Jobs : job[j].pc \in Bootstrapping}) <= 1
    /\ Len(instances) <= 1

\* A call made in this step, and whether it was given an event of
\* initialize's onProgress.
Called(j) == job[j].pc = "idle" /\ job'[j].pc # "idle"
GivenLoadProgress(r) ==
    \E i \in 1..Len(r.delivered) : r.delivered[i].message = <<"loading">>

\* A call made once the engine is loaded fetches nothing, calls no load,
\* registers no 'progress' listener for initialize and is given no event of
\* initialize's onProgress; and isLoaded stays true.
ReadyIsIdempotent ==
    /\ [][\A j \in Jobs :
            (Called(j) /\ isLoaded)
            => /\ job'[j].pc \notin Bootstrapping
               /\ listeners'[j] = <<>>
               /\ ~GivenLoadProgress(job'[j])
               /\ job'[j].src = 0]_vars
    /\ [][isLoaded => isLoaded']_vars
    /\ [](\A j \in Jobs : job[j].pc \in Bootstrapping => job[j].src \in Sources)

\* C4: ensureReady is idempotent once Ready.  ReadyIsIdempotent, and the
\* engine instantiated when initialize first succeeded is the one every later
\* job runs on: no instantiation succeeds once the engine is loaded.
C4_IdempotentOnceReady ==
    /\ ReadyIsIdempotent
    /\ [][isLoaded => instances' = instances]_vars

\* The call rejects in this step with initialize's failure.
InitRejected(j) ==
    job[j].pc # "rejected" /\ job'[j].pc = "rejected" /\ job'[j].error = InitFailure

\* C5: bootstrap fallback on failure.  A call inside initialize moves from a
\* source only to the next source in list order, and only by a failure; it
\* rejects with the engine-init failure only from the last source; and when
\* it so rejects the engine is not loaded.
C5_FallbackOnFailure ==
    [][\A j \in Jobs :
         /\ (job[j].pc \in Bootstrapping /\ job'[j].src # job[j].src)
            => /\ job'[j].src = job[j].src + 1
               /\ job'[j].pc = "fetchCore"
               /\ faults' = faults + 1
         /\ (job[j].pc \in Bootstrapping /\ job'[j].pc = "rejected")
            => /\ job[j].src = NumSources
               /\ job'[j].error = InitFailure
         /\ InitRejected(j) => ~isLoaded']_vars

\* C6: bootstrap fallback success.  The engine is loaded with the artifacts
\* of exactly one source, which the loading call reached by failing on every
\* source before it; once the engine is loaded no call enters a source and no
\* call sends a load.
C6_FallbackSuccess ==
    /\ [](isLoaded => Len(instances) = 1)
    /\ [][\A j \in Jobs :
            /\ (job[j].pc = "load" /\ ~isLoaded /\ isLoaded') => instances' = <<job[j].src>>
            /\ (job[j].pc \in Bootstrapping /\ job'[j].src # job[j].src)
               => (job'[j].src = job[j].src + 1 /\ faults' = faults + 1)
            /\ (isLoaded /\ job'[j].pc = "fetchCore")
               => (job[j].pc = "fetchCore" /\ job[j].src = job'[j].src)
            /\ (isLoaded /\ job'[j].pc = "load") => job[j].pc = "load"]_vars

\* C7: job state order.  The statuses given to the onProgress of an
\* exportSingleClip call start with 'preparing', hold no 'preparing' after a
\* 'processing', and hold 'completed' only after a 'processing'.
C7_JobStateOrder ==
    \A j \in Jobs :
        job[j].kind = "single" =>
            LET st == job[j].statuses IN
            /\ st # <<>> => st[1] = "preparing"
            /\ \A a, b \in 1..Len(st) :
                   a < b => ~(st[a] = "processing" /\ st[b] = "preparing")
            /\ \A b \in 1..Len(st) :
                   st[b] = "completed" => \E a \in 1..(b - 1) : st[a] = "processing"

\* C8: one terminal event.  The onProgress of a call is given at most one
\* terminal event ('completed' or 'error'), a settled call has been given
\* one, and nothing is given to it after its terminal event.
C8_OneTerminalEvent ==
    \A j \in Jobs :
        LET st == job[j].statuses
            t == {i \in 1..Len(st) : st[i] \in Terminal} IN
        /\ Cardinality(t) <= 1
        /\ \A i \in t : i = Len(st)
        /\ job[j].pc \in Settled => t # {}

\* C9: failure propagation in exportSingleClip.  A call that leaves a stage
\* other than to the next stage rejects, and when it rejects the last event
\* its onProgress was given is 'error' with the error's message in it; a
\* rejected call has an error, was told of it, and was never given
\* 'completed'; and no stage is invoked twice by one call.
C9_FailurePropagation ==
    /\ [][\A j \in Jobs :
            (/\ job[j].kind = "single"
             /\ job[j].pc # "rejected"
             /\ job'[j].pc = "rejected")
            => /\ job'[j].error # <<>>
               /\ job'[j].delivered # <<>>
               /\ Last(job'[j].delivered).status = "error"
               /\ Contains(Last(job'[j].delivered).message, job'[j].error)
               /\ job'[j].ops = job[j].ops
                    \/ job'[j].ops = Append(job[j].ops, [op |-> "downloadFile", arg |-> 1])]_vars
    /\ [](\A j \in Jobs :
            job[j].kind = "single" =>
              /\ job[j].pc = "rejected" =>
                   /\ job[j].error # <<>>
                   /\ Contains(job[j].reported, job[j].error)
                   /\ \A i \in 1..Len(job[j].statuses) : job[j].statuses[i] # "completed"
                   /\ job[j].outputs = 0
              /\ job[j].pc # "rejected" => job[j].error = <<>> /\ job[j].reported = <<>>
              /\ \A a, b \in 1..Len(job[j].ops) :
                   a # b => job[j].ops[a].op # job[j].ops[b].op)

\* An exportSingleClip call whose transcode threw.
C9_Witness ==
    \E j \in Jobs :
        /\ job[j].kind = "single" /\ job[j].pc = "rejected"
        /\ job[j].error = ExecFailure
        /\ Contains(job[j].reported, ExecFailure)

\* C10: strictly sequential batch.  In the operations of one
\* exportMultipleClips call initializeFFmpeg occurs at most once and first;
\* the clips are taken in list order, each once; the write that opens clip
\* c+1 directly follows the hand-over of clip c's output to downloadFile; and
\* the operations of one clip are not interleaved with another clip's.
C10_SequentialBatch ==
    \A j \in Jobs :
        job[j].kind = "batch" =>
            LET ops == job[j].ops
                writes == SelectSeq(ops, LAMBDA o : o.op = "writeFile") IN
            /\ \A i \in 1..Len(ops) : ops[i].op = "initializeFFmpeg" => i = 1
            /\ \A i \in 1..Len(writes) : writes[i].arg = i
            /\ \A i \in 1..Len(ops) :
                 /\ (ops[i].op = "writeFile" /\ ops[i].arg > 1)
                    => (i > 1 /\ ops[i - 1] = [op |-> "downloadFile", arg |-> ops[i].arg - 1])
                 /\ ops[i].op \in {"exec", "readFile", "deleteInput", "deleteOutput", "downloadFile"}
                    => (i > 1 /\ ops[i - 1].arg = ops[i].arg)
            /\ job[j].pc \in Transcoding => job[j].clip = Len(writes)

\* A batch of three clips that delivered its three outputs.
C10_Witness ==
    \E j \in Jobs :
        /\ job[j].kind = "batch" /\ job[j].total = 3
        /\ job[j].pc = "resolved" /\ job[j].outputs = 3
        /\ Len(SelectSeq(job[j].ops, LAMBDA o : o.op = "exec")) = 3

\* Positions of a call inside processVideoClip's try block.
Processing == {"writeFile", "exec", "readFile", "deleteInput", "deleteOutput"}

\* C11: buffer cleanup regardless of outcome.  Whenever no call is inside
\* processVideoClip (each such call has returned or thrown), the engine's file
\* store holds none of the intermediate buffers.
C11_BufferCleanup ==
    (\A j \in Jobs : job[j].pc \notin Processing) => files = {}

\* C22: batch progress labelling.  While a batch is in flight, every
\* 'processing' event its onProgress was given by the latest task carries the
\* batch's number of clips as clipTotal and the index of the clip the batch is
\* at as clipIndex (so the index never goes back).
C22_BatchProgressLabelling ==
    \A j \in Jobs :
        (job[j].kind = "batch" /\ job[j].pc \notin Settled)
        => \A i \in 1..Len(job[j].delivered) :
              job[j].delivered[i].status = "processing"
              => /\ job[j].delivered[i].clipTotal = job[j].total
                 /\ job[j].delivered[i].clipIndex = job[j].clip

\* C23: progress range.  With ratios between 0 and 1, every event handed to
\* an onProgress has processingProgress between 0 and 100, and the events
\* exportSingleClip emits before and while the engine loads ('preparing')
\* have at most 50.
C23_ProgressRange ==
    \A j \in Jobs : \A i \in 1..Len(job[j].delivered) :
        LET ev == job[j].delivered[i] IN
        /\ 0 <= ev.processingProgress
        /\ ev.processingProgress <= 100
        /\ (job[j].kind = "single" /\ ev.status = "preparing")
           => ev.processingProgress <= 50

\* A single export has just completed its load (the last milestone, ratio 1,
\* scaled to 50) and a batch has been given a clip's progress of 100.
C23_Witness ==
    /\ \E j \in Jobs :
        /\ job[j].kind = "single" /\ job[j].pc = "writeFile"
        /\ \E i \in 1..Len(job[j].delivered) :
              /\ job[j].delivered[i].status = "preparing"
              /\ job[j].delivered[i].processingProgress = 50
    /\ \E j \in Jobs :
        /\ job[j].kind = "batch"
        /\ \E i \in 1..Len(job[j].delivered) :
              /\ job[j].delivered[i].status = "processing"
              /\ job[j].delivered[i].processingProgress = 100

\* C28: monotone progress.  Among the events one task hands to the onProgress
\* of a single export that is in flight, processingProgress never decreases
\* from one event to the next.
C28_MonotoneProgress ==
    \A j \in Jobs :
        (job[j].kind = "single" /\ job[j].pc \notin Settled)
        => \A i \in 1..(Len(job[j].delivered) - 1) :
              job[j].delivered[i].processingProgress
                 <= job[j].delivered[i + 1].processingProgress

\* C30: engine readiness before use.  isFFmpegInitialized implies isLoaded;
\* isLoaded is set exactly when a load has succeeded and is never cleared; a
\* call is inside processVideoClip's try block, or has invoked any of its
\* engine operations, only when the engine is loaded.
C30_ReadyBeforeUse ==
    /\ [](isFFmpegInitialized => isLoaded)
    /\ [](isLoaded <=> Gen > 0)
    /\ [][isLoaded => isLoaded']_vars
    /\ [](\A j \in Jobs :
            /\ job[j].pc \in Processing => isLoaded
            /\ \A i \in 1..Len(job[j].ops) :
                 job[j].ops[i].op \in {"writeFile", "exec", "readFile"}
                 => isLoaded)

\* A call that loaded the engine itself is executing its command, and a call
\* made after it, which found the engine ready, has written its input.
C30_Witness ==
    \E j, k \in Jobs :
        /\ job[j].pc = "exec" /\ Gen = 1
        /\ \E i \in 1..Len(job[j].ops) : job[j].ops[i].op = "initializeFFmpeg"
        /\ job[k].pc = "writeFile"
        /\ \A i \in 1..Len(job[k].ops) : job[k].ops[i].op # "initializeFFmpeg"

----------------------------------------------------------------------------
\* ExportPanel: the export settings

\* Ranges of the panel's quality and frame-rate sliders.
QualityMin == 40
QualityMax == 100
FpsMin == 10
FpsMax == 30

HandleFormatChange(format) ==
    /\ exportSettings' = [exportSettings EXCEPT !.format = format,
                                                !.fps = Some(DEFAULT_FPS[format])]
    /\ UNCHANGED <<app, handlerVars, editorVars, builderVars>>

HandlePresetChange(preset) ==
    /\ exportSettings' = [exportSettings EXCEPT !.preset = Some(preset),
                                                !.quality = QUALITY_PRESETS[preset]]
    /\ UNCHANGED <<app, handlerVars, editorVars, builderVars>>

\* A quality change that left the preset as it was.
HandleQualityChangeKeepingPreset(quality) ==
    /\ exportSettings' = [exportSettings EXCEPT !.quality = quality]
    /\ UNCHANGED <<app, handlerVars, editorVars, builderVars>>

HandleQualityChange(quality) ==
    /\ exportSettings' = [exportSettings EXCEPT !.quality = quality,
                                                !.preset = None]
    /\ UNCHANGED <<app, handlerVars, editorVars, builderVars>>

\* The frame-rate slider, rendered only for gif.
HandleFpsChange(fps) ==
    /\ exportSettings.format = "gif"
    /\ exportSettings' = [exportSettings EXCEPT !.fps = Some(fps)]
    /\ UNCHANGED <<app, handlerVars, editorVars, builderVars>>

NextPanel ==
    \/ \E format \in {"mp4", "gif"} : HandleFormatChange(format)
    \/ \E preset \in {"high", "medium", "low"} : HandlePresetChange(preset)
    \/ \E quality \in QualityMin..QualityMax : HandleQualityChange(quality)
    \/ \E fps \in FpsMin..FpsMax : HandleFpsChange(fps)

SpecPanel == Init /\ [][NextPanel]_vars

\* C20: preset and quality are mutually exclusive sources of truth.  In every
\* reachable state of the export settings a defined preset implies that
\* quality is that preset's fixed value, and every direct quality change
\* (handleQualityChange) leaves preset undefined.
C20_PresetOrQuality ==
    /\ [](exportSettings.preset # None
            => exportSettings.quality = QUALITY_PRESETS[exportSettings.preset[1]])
    /\ [][(\E quality \in QualityMin..QualityMax : HandleQualityChange(quality))
            => exportSettings'.preset = None]_vars

\* A custom quality that is no preset's value, set after a change of format.
C20_Witness ==
    /\ exportSettings.preset = None
    /\ exportSettings.quality = 55
    /\ exportSettings.format = "gif"

----------------------------------------------------------------------------
\* VideoProcessor: the command builder

\* The elements of a command: words (options and file names), numbers put in
\* by toString, and filter chains; and the filters of a chain.
Word(w) == [word |-> w]
Number(n) == [number |-> n]
Filter(chain) == [filter |-> chain]
Crop(width, height, x, y) == [crop |-> <<width, height, x, y>>]
Fps(fps) == [fps |-> fps]
Named(name) == [name |-> name]

\* A quality-to-CRF mapping that cuts the fraction off instead of rounding.
qualityToCRFTruncated(quality) ==
    LET minCRF == Whole(18)
        maxCRF == Whole(28)
        crf == Sub(maxCRF, Mul(Div(Whole(quality - 40), Whole(60)), Sub(maxCRF, minCRF)))
    IN  MathTrunc(MathMax(minCRF, MathMin(maxCRF, crf)))

qualityToCRF(quality) ==
    LET minCRF == Whole(18)
        maxCRF == Whole(28)
        crf == Sub(maxCRF, Mul(Div(Whole(quality - 40), Whole(60)), Sub(maxCRF, minCRF)))
    IN  MathRound(MathMax(minCRF, MathMin(maxCRF, crf)))

\* A crop filter with the fractions cut off.
cropFilterTruncated(c) ==
    Crop(MathTrunc(c.cropArea.width), MathTrunc(c.cropArea.height),
         MathTrunc(c.cropArea.x), MathTrunc(c.cropArea.y))

\* crop=w:h:x:y
cropFilter(c) ==
    Crop(MathRound(c.cropArea.width), MathRound(c.cropArea.height),
         MathRound(c.cropArea.x), MathRound(c.cropArea.y))

\* settings.fps || 15
fpsOrDefault(settings) ==
    IF settings.fps = None \/ settings.fps = Some(0) THEN 15 ELSE settings.fps[1]

buildFFmpegCommand(inputFile, outputFile, c, settings) ==
    LET trim == <<Word("-i"), Word(inputFile),
                  Word("-ss"), Number(c.startTime),
                  Word("-t"), Number(c.endTime - c.startTime)>>
        scale == Named("scale=320:-1:flags=lanczos")
        paletteFilter ==
            Filter(<<cropFilter(c), Fps(fpsOrDefault(settings)), scale, Named("palettegen")>>)
        gifFilter ==
            Filter(<<cropFilter(c), Fps(fpsOrDefault(settings)), scale,
                     Named("[x];[x][1:v]paletteuse")>>)
    IN  (IF settings.format = "mp4"
         THEN trim \o <<Word("-vf"), Filter(<<cropFilter(c)>>),
                        Word("-c:v"), Word("libx264"),
                        Word("-preset"), Word("fast"),
                        Word("-crf"), Number(qualityToCRF(settings.quality)),
                        Word("-c:a"), Word("aac"),
                        Word("-b:a"), Word("128k")>>
         ELSE IF settings.format = "gif"
         THEN trim \o <<Word("-vf"), paletteFilter,
                        Word("-y"), Word("palette.png"),
                        Word("-i"), Word("palette.png"),
                        Word("-filter_complex"), gifFilter,
                        Word("-loop"), Word("0")>>
         ELSE trim)
        \o <<Word(outputFile)>>

\* `output.${settings.format}`
outputFileName(settings) ==
    IF settings.format = "mp4" THEN "output.mp4" ELSE "output.gif"

----------------------------------------------------------------------------
\* VideoProcessor: one command, one exec

\* The syntax of the command: the options that take a value and the one that
\* takes none.  A word that is neither an option nor an option's value names
\* an output file; the value of -i names an input file.
ValueOptions ==
    {"-i", "-ss", "-t", "-vf", "-c:v", "-preset", "-crf", "-c:a", "-b:a",
     "-filter_complex", "-loop"}
Flags == {"-y"}

IsWord(tok) == DOMAIN tok = {"word"}
IsOption(tok) == IsWord(tok) /\ tok.word \in ValueOptions

InputFiles(cmd) ==
    {cmd[i + 1].word : i \in {k \in 1..(Len(cmd) - 1) : cmd[k] = Word("-i")}}

OutputAt(cmd) ==
    {i \in 1..Len(cmd) :
        /\ IsWord(cmd[i])
        /\ cmd[i].word \notin ValueOptions \cup Flags
        /\ i > 1 => ~IsOption(cmd[i - 1])}

OutputFiles(cmd) == {cmd[i].word : i \in OutputAt(cmd)}

\* What the engine does with a file while it executes a command.
Read(f) == [op |-> "read", file |-> f]
Wrote(f) == [op |-> "wrote", file |-> f]

Done(e) == \E i \in 1..Len(run) : run[i] = e

\* processVideoClip builds the command for the clip and sends it to the
\* engine as one exec.
ExecCommand ==
    /\ clip # None
    /\ command = None
    /\ command' = Some(buildFFmpegCommand("input.mp4", outputFileName(exportSettings),
                                          clip[1], exportSettings))
    /\ run' = <<>>
    /\ UNCHANGED <<app, handlerVars, exportSettings, editorVars, clip>>

\* The engine opens an input of the command.  The code sends both stages of
\* the gif pipeline in the one command and waits only for the exec as a
\* whole, so nothing of its own orders the opening of palette.png after the
\* writing of palette.png.
EngineReads(f) ==
    /\ command # None
    /\ f \in InputFiles(command[1])
    /\ ~Done(Read(f))
    /\ run' = Append(run, Read(f))
    /\ UNCHANGED <<app, handlerVars, exportSettings, editorVars, clip, command>>

\* The engine completes an output of the command: the last one (the result)
\* once every input has been read, an earlier one once the first input has.
EngineWrote(f) ==
    /\ command # None
    /\ f \in OutputFiles(command[1])
    /\ ~Done(Wrote(f))
    /\ Done(Read(command[1][2].word))
    /\ f = command[1][Len(command[1])].word
       => \A g \in InputFiles(command[1]) : Done(Read(g))
    /\ run' = Append(run, Wrote(f))
    /\ UNCHANGED <<app, handlerVars, exportSettings, editorVars, clip, command>>

\* Bounds of the builder's inputs: crop coordinates with fractions below,
\* at and above one half, and qualities inside and outside the slider's range.
QualityLow == 35
QualityHigh == 105
CropValues == {Frac(1, 2), Frac(5, 4), Frac(7, 4)}
CropSizes == {Frac(5, 2), Frac(13, 4)}
BuilderClips ==
    {[startTime |-> t[1], endTime |-> t[2],
      cropArea |-> [x |-> x, y |-> y, width |-> w, height |-> h]] :
        t \in {<<0, 300>>, <<100, 250>>},
        x \in CropValues, y \in CropValues, w \in CropSizes, h \in CropSizes}
BuilderSettings ==
    [format : {"mp4", "gif"}, quality : QualityLow..QualityHigh,
     preset : {None}, fps : {None, Some(10), Some(24)}]

InitBuilder ==
    /\ HandlerInit
    /\ app = InitialApp
    /\ EditorInit(Video)
    /\ exportSettings \in BuilderSettings
    /\ clip \in {Some(c) : c \in BuilderClips}
    /\ command = None
    /\ run = <<>>

NextBuilder ==
    \/ ExecCommand
    \/ \E f \in {"input.mp4", "palette.png"} : EngineReads(f)
    \/ \E f \in {"palette.png", "output.mp4", "output.gif"} : EngineWrote(f)

SpecBuilder == InitBuilder /\ [][NextBuilder]_vars

\* The token tok directly follows the option w in cmd.
Follows(cmd, w, tok) ==
    \E i \in 1..(Len(cmd) - 1) : cmd[i] = Word(w) /\ cmd[i + 1] = tok

\* The filter chains of cmd, and the crop filters in them.
Chains(cmd) ==
    {cmd[i].filter : i \in {k \in 1..Len(cmd) : DOMAIN cmd[k] = {"filter"}}}
Crops(cmd) ==
    UNION {{ch[k] : k \in {m \in 1..Len(ch) : DOMAIN ch[m] = {"crop"}}} : ch \in Chains(cmd)}

\* The whole number n is a nearest whole number to the fraction v.
Nearest(n, v) == 2 * Abs(n * v[2] - v[1]) <= v[2]

\* C12: quality mapping.  The CRF computed for the quality is a whole number
\* in [18,28]; for a quality in [40,100] it is 28 - ((quality-40)/60)*10
\* rounded (halves up); it is 28 for 40, 23 for 70 and 18 for 100; no higher
\* quality has a higher CRF; and it is the value an mp4 command carries.
C12_QualityMapping ==
    LET q == exportSettings.quality
        crf == qualityToCRF(q)
    IN  /\ crf \in 18..28
        /\ q \in 40..100 => (6 * crf - 3 <= 208 - q /\ 208 - q < 6 * crf + 3)
        /\ qualityToCRF(40) = 28 /\ qualityToCRF(70) = 23 /\ qualityToCRF(100) = 18
        /\ \A q2 \in QualityLow..QualityHigh : q < q2 => crf >= qualityToCRF(q2)
        /\ q < 40 => crf = 28
        /\ q > 100 => crf = 18
        /\ (command # None /\ exportSettings.format = "mp4")
           => Follows(command[1], "-crf", Number(crf))

\* An mp4 command for quality 43, whose CRF 27.5 is rounded to 28.
C12_Witness ==
    /\ command # None
    /\ exportSettings.format = "mp4"
    /\ exportSettings.quality = 43
    /\ Follows(command[1], "-crf", Number(28))

\* C18: command builder content and order.  The command built for the clip
\* begins with the input, holds a trim with start = startTime and duration =
\* endTime - startTime, holds a crop filter, each crop filter in it has the
\* clip's width, height, x and y rounded to a nearest whole number, it ends
\* with the output file name, and it is determined by the clip and settings.
C18_CommandContent ==
    command # None =>
        LET cmd == command[1]
            c == clip[1]
        IN  /\ SubSeq(cmd, 1, 2) = <<Word("-i"), Word("input.mp4")>>
            /\ Follows(cmd, "-ss", Number(c.startTime))
            /\ Follows(cmd, "-t", Number(c.endTime - c.startTime))
            /\ Crops(cmd) # {}
            /\ \A f \in Crops(cmd) :
                 /\ Nearest(f.crop[1], c.cropArea.width)
                 /\ Nearest(f.crop[2], c.cropArea.height)
                 /\ Nearest(f.crop[3], c.cropArea.x)
                 /\ Nearest(f.crop[4], c.cropArea.y)
            /\ \A ch \in Chains(cmd) : DOMAIN ch[1] = {"crop"}
            /\ cmd[Len(cmd)] = Word(outputFileName(exportSettings))
            /\ cmd = buildFFmpegCommand("input.mp4", outputFileName(exportSettings),
                                        c, exportSettings)

\* A gif command for a crop at x = 1/2 and y = 7/4, rounded to 1 and 2.
C18_Witness ==
    /\ command # None
    /\ exportSettings.format = "gif"
    /\ clip[1].cropArea.x = Frac(1, 2)
    /\ clip[1].cropArea.y = Frac(7, 4)
    /\ \E f \in Crops(command[1]) : f.crop[3] = 1 /\ f.crop[4] = 2

\* C19: two-stage palette pipeline.  For gif output the engine reads the
\* palette only after the palette has been written completely; the chain
\* that uses the palette is the chain that generated it up to its last
\* filter; the output loops infinitely; and the frame rate is the supplied
\* fps, or 15 when none is supplied.
C19_PalettePipeline ==
    (command # None /\ exportSettings.format = "gif") =>
        LET cmd == command[1] IN
        /\ \A i \in 1..Len(run) :
             run[i] = Read("palette.png")
             => \E k \in 1..(i - 1) : run[k] = Wrote("palette.png")
        /\ \E gen, use \in Chains(cmd) :
             /\ Follows(cmd, "-vf", Filter(gen))
             /\ Follows(cmd, "-filter_complex", Filter(use))
             /\ SubSeq(gen, 1, Len(gen) - 1) = SubSeq(use, 1, Len(use) - 1)
             /\ gen[Len(gen)] = Named("palettegen")
             /\ gen[2] = Fps(IF exportSettings.fps = None THEN 15
                             ELSE exportSettings.fps[1])
        /\ Follows(cmd, "-loop", Word("0"))

----------------------------------------------------------------------------
\* useVideoEditor: the selection

\* Bounds of the editor: segments created in a run, handler calls made while
\* a createClipSegment call is suspended, the presets the user picks from
\* (the first ones of CROP_PRESETS), the times a slider may report and the
\* places of the video area the mouse may be at.
MaxSegments == 1
MaxEditsWhileCreating == 1
PresetCount == 3
TimeInputs == {0, Video.duration}
Positions == {0, 1, Side}

\* The 0.1 s of setStartTime, setEndTime and canAddToClips, in milliseconds.
Tenth == 100

Min(a, b) == IF a < b THEN a ELSE b
Max(a, b) == IF a > b THEN a ELSE b

videoDuration == media.duration

\* editorState.selectedTimeRange || { start: 0, end: videoDuration }
timeRange ==
    IF editor.selectedTimeRange # None
    THEN editor.selectedTimeRange[1]
    ELSE [start |-> 0, end |-> videoDuration]

\* The editor after setTimeRange(range).
setTimeRange(ed, range) ==
    [ed EXCEPT !.selectedTimeRange =
        Some([start |-> Max(0, Min(range.start, videoDuration)),
              end |-> Max(range.start, Min(range.end, videoDuration))])]

\* The editor after resetSelection().
resetSelection(ed) ==
    [setTimeRange(ed, [start |-> 0, end |-> Min(videoDuration, 10000)])
        EXCEPT !.selectedCropArea = None, !.selectedPreset = CROP_PRESETS[1]]

getSelectedDuration == timeRange.end - timeRange.start

canAddToClips == getSelectedDuration > Tenth

\* The user goes on with the editor: until the run's last segment has been
\* returned, and for a bounded number of calls while one is being created.
Editing ==
    /\ creating.made < MaxSegments
    /\ creating.pc = "thumbnail" => creating.edits < MaxEditsWhileCreating

\* One more handler call.
Edited ==
    /\ creating' = IF creating.pc = "thumbnail"
                   THEN [creating EXCEPT !.edits = @ + 1]
                   ELSE creating
    /\ UNCHANGED <<app, handlerVars, exportSettings, media, containerRect, builderVars>>

SetStartTime(time) ==
    /\ Editing
    /\ LET clampedTime == Max(0, Min(time, timeRange.end - Tenth)) IN
       editor' = setTimeRange(editor, [start |-> clampedTime, end |-> timeRange.end])
    /\ Edited

SetEndTime(time) ==
    /\ Editing
    /\ LET clampedTime == Max(timeRange.start + Tenth, Min(time, videoDuration)) IN
       editor' = setTimeRange(editor, [start |-> timeRange.start, end |-> clampedTime])
    /\ Edited

ApplyPreset(preset) ==
    /\ Editing
    /\ editor' = [editor EXCEPT !.selectedPreset = preset,
                                !.selectedCropArea =
                                    IF preset = Whole(0) THEN @ ELSE None]
    /\ Edited

\* The mouse goes down at (x, y) of the video area.  No drag is under way:
\* the button was up, and leaving the area ends a drag (onMouseLeave).
HandleMouseDown(x, y) ==
    /\ Editing
    /\ ~editor.isDragging
    /\ editor' = [editor EXCEPT !.isDragging = TRUE,
                                !.dragStart = Some([x |-> x, y |-> y])]
    /\ Edited

\* The crop area handleMouseMove sets for the mouse at (x, y).  A division
\* by a zero height gives Infinity (NaN for 0/0), which is above every ratio
\* (NaN: above none).
DraggedArea(x, y) ==
    LET start == editor.dragStart[1]
        left == Min(start.x, x)
        top == Min(start.y, y)
        width == Abs(x - start.x)
        height == Abs(y - start.y)
        ratio == editor.selectedPreset
        fixed == ratio # Whole(0)
        wider == IF height = 0 THEN width > 0
                 ELSE Less(ratio, Frac(width, height))
        finalWidth == IF fixed /\ wider THEN Mul(Whole(height), ratio) ELSE Whole(width)
        finalHeight == IF fixed /\ ~wider THEN Div(Whole(width), ratio) ELSE Whole(height)
        maxWidth == Whole(containerRect.width - left)
        maxHeight == Whole(containerRect.height - top)
    IN  [x |-> Whole(left), y |-> Whole(top),
         width |-> MathMin(finalWidth, maxWidth),
         height |-> MathMin(finalHeight, maxHeight)]

HandleMouseMove(x, y) ==
    /\ Editing
    /\ editor.isDragging /\ editor.dragStart # None
    /\ editor' = [editor EXCEPT !.selectedCropArea = Some(DraggedArea(x, y))]
    /\ Edited

HandleMouseUp ==
    /\ Editing
    /\ editor' = [editor EXCEPT !.isDragging = FALSE, !.dragStart = None]
    /\ Edited

ResetSelection ==
    /\ Editing
    /\ editor' = resetSelection(editor)
    /\ Edited

\* The hook's setTimeRange, called by its user with any range.
SetTimeRange(range) ==
    /\ Editing
    /\ editor' = setTimeRange(editor, range)
    /\ Edited

\* The hook's setCropArea, called by its user with any area or null.
SetCropArea(area) ==
    /\ Editing
    /\ editor' = [editor EXCEPT !.selectedCropArea = area]
    /\ Edited

----------------------------------------------------------------------------
\* createClipSegment

\* A placement that covers the video area instead of fitting inside it.
DisplayCover ==
    LET cw == Whole(containerRect.width)
        ch == Whole(containerRect.height)
        vw == Whole(media.dimensions.width)
        vh == Whole(media.dimensions.height)
        containerAspect == Div(cw, ch)
        videoAspect == Div(vw, vh)
        wide == Less(videoAspect, containerAspect)
        displayWidth == IF wide THEN cw ELSE Mul(ch, videoAspect)
        displayHeight == IF wide THEN Div(cw, videoAspect) ELSE ch
    IN  [displayWidth |-> displayWidth,
         displayHeight |-> displayHeight,
         offsetX |-> IF wide THEN Whole(0) ELSE Div(Sub(cw, displayWidth), Whole(2)),
         offsetY |-> IF wide THEN Div(Sub(ch, displayHeight), Whole(2)) ELSE Whole(0),
         scaleX |-> Div(vw, displayWidth),
         scaleY |-> Div(vh, displayHeight)]

\* How the medium is displayed in the video area (object-contain): the
\* displayed size, its offsets in the area, and the display-to-source scales.
Display ==
    LET cw == Whole(containerRect.width)
        ch == Whole(containerRect.height)
        vw == Whole(media.dimensions.width)
        vh == Whole(media.dimensions.height)
        containerAspect == Div(cw, ch)
        videoAspect == Div(vw, vh)
        wide == Less(containerAspect, videoAspect)
        displayWidth == IF wide THEN cw ELSE Mul(ch, videoAspect)
        displayHeight == IF wide THEN Div(cw, videoAspect) ELSE ch
    IN  [displayWidth |-> displayWidth,
         displayHeight |-> displayHeight,
         offsetX |-> IF wide THEN Whole(0) ELSE Div(Sub(cw, displayWidth), Whole(2)),
         offsetY |-> IF wide THEN Div(Sub(ch, displayHeight), Whole(2)) ELSE Whole(0),
         scaleX |-> Div(vw, displayWidth),
         scaleY |-> Div(vh, displayHeight)]

\* The selection in video coordinates, its origin clamped at 0 and its size
\* at the size of the video.
Converted(area) ==
    LET d == Display IN
    [x |-> MathMax(Whole(0), Mul(Sub(area.x, d.offsetX), d.scaleX)),
     y |-> MathMax(Whole(0), Mul(Sub(area.y, d.offsetY), d.scaleY)),
     width |-> MathMin(Mul(area.width, d.scaleX), Whole(media.dimensions.width)),
     height |-> MathMin(Mul(area.height, d.scaleY), Whole(media.dimensions.height))]

\* A conversion that does not look at the video's far edges.
Unbounded(a) == a

\* The two checks that follow the conversion: a rectangle that passes the
\* right or the bottom edge of the video gets the width or height left there.
Bounded(a) ==
    LET vw == Whole(media.dimensions.width)
        vh == Whole(media.dimensions.height)
        w == IF Less(vw, Add(a.x, a.width)) THEN Sub(vw, a.x) ELSE a.width
        h == IF Less(vh, Add(a.y, a.height)) THEN Sub(vh, a.y) ELSE a.height
    IN  [a EXCEPT !.width = w, !.height = h]

\* finalCropArea: the whole frame without a selection.
finalCropArea(selection) ==
    IF selection = None
    THEN [x |-> Whole(0), y |-> Whole(0),
          width |-> Whole(media.dimensions.width),
          height |-> Whole(media.dimensions.height)]
    ELSE Bounded(Converted(selection[1]))

\* The segment createClipSegment returns, but for its thumbnail.
Segment(range, selection) ==
    [startTime |-> range.start, endTime |-> range.end,
     cropArea |-> finalCropArea(selection), thumbnail |-> "mediaUrl"]

\* A catch block that passes the generator's error on: no segment.
RethrowThumbnail(seg) == None

\* The catch block around the thumbnail: the segment keeps media.url.
CatchThumbnail(seg) == Some([seg EXCEPT !.thumbnail = "mediaUrl"])

\* The size of the thumbnails createClipSegment asks for.
ThumbnailWidth == 320
ThumbnailHeight == 180

\* The seeked handler of generateCroppedThumbnail: the frame it was moved to
\* and the region of that frame it hands to drawImage.  It places the video
\* in the canvas, covering it, and converts cropArea from canvas coordinates
\* to video coordinates.
generateCroppedThumbnail(currentTime, cropArea, outputWidth, outputHeight) ==
    LET vw == Whole(media.dimensions.width)
        vh == Whole(media.dimensions.height)
        cw == Whole(outputWidth)
        ch == Whole(outputHeight)
        videoAspect == Div(vw, vh)
        canvasAspect == Div(cw, ch)
        wide == Less(canvasAspect, videoAspect)
        drawHeight == IF wide THEN ch ELSE Div(cw, videoAspect)
        drawWidth == IF wide THEN Mul(ch, videoAspect) ELSE cw
        offsetX == IF wide THEN Div(Sub(cw, drawWidth), Whole(2)) ELSE Whole(0)
        offsetY == IF wide THEN Whole(0) ELSE Div(Sub(ch, drawHeight), Whole(2))
        scaleX == Div(vw, drawWidth)
        scaleY == Div(vh, drawHeight)
        sourceX == Mul(Sub(cropArea.x, offsetX), scaleX)
        sourceY == Mul(Sub(cropArea.y, offsetY), scaleY)
        sourceWidth == Mul(cropArea.width, scaleX)
        sourceHeight == Mul(cropArea.height, scaleY)
    IN  [time |-> MathMin(currentTime, Whole(media.duration)),
         area |-> [x |-> MathMax(Whole(0), sourceX),
                   y |-> MathMax(Whole(0), sourceY),
                   width |-> MathMin(sourceWidth, Sub(vw, sourceX)),
                   height |-> MathMin(sourceHeight, Sub(vh, sourceY))]]

\* What the thumbnail generator drew for the suspended call: with a
\* selection, generateCroppedThumbnail is given finalCropArea.
Drawn(outcome) ==
    IF outcome = "generated" /\ creating.selection # None
    THEN Some(generateCroppedThumbnail(creating.thumbnailTime[1],
                                       finalCropArea(creating.selection),
                                       ThumbnailWidth, ThumbnailHeight))
    ELSE None

\* createClipSegment returned result to handleAddToClips, which hands a
\* segment to onAddClip and resets the selection.
Returned(result, outcome) ==
    IF result = None
    THEN /\ creating' = [creating EXCEPT !.pc = "rejected", !.thumbnail = outcome,
                                         !.drawn = Drawn(outcome)]
         /\ UNCHANGED <<editor, clip>>
    ELSE /\ creating' = [creating EXCEPT !.pc = "done", !.thumbnail = outcome,
                                         !.made = @ + 1,
                                         !.drawn = Drawn(outcome)]
         /\ clip' = result
         /\ editor' = resetSelection(editor)

\* handleAddToClips calls createClipSegment: null when the selection cannot
\* be added; otherwise the crop area is computed and, for a video or gif, the
\* call is suspended on the thumbnail generator.
CreateClipSegment ==
    /\ creating.pc \in {"idle", "null"}
    /\ creating.made < MaxSegments
    /\ LET call == [creating EXCEPT !.timeRange = Some(timeRange),
                                    !.selection = editor.selectedCropArea,
                                    !.thumbnail = "none", !.edits = 0,
                                    !.thumbnailTime = None, !.drawn = None]
           thumbnailTime == Add(Whole(timeRange.start),
                                Frac(timeRange.end - timeRange.start, 2))
       IN  IF ~canAddToClips
           THEN /\ creating' = [call EXCEPT !.pc = "null"]
                /\ UNCHANGED <<editor, clip>>
           ELSE IF media.type \in {"video", "gif"}
           THEN /\ creating' = [call EXCEPT !.pc = "thumbnail",
                                            !.thumbnailTime = Some(thumbnailTime)]
                /\ UNCHANGED <<editor, clip>>
           ELSE /\ creating' = [call EXCEPT !.pc = "done", !.made = @ + 1]
                /\ clip' = Some(Segment(timeRange, editor.selectedCropArea))
                /\ editor' = resetSelection(editor)
    /\ UNCHANGED <<app, handlerVars, exportSettings, media, containerRect, command, run>>

\* generateCroppedThumbnail / generateVideoThumbnail settles.
ThumbnailDone(ok) ==
    /\ creating.pc = "thumbnail"
    /\ LET seg == Segment(creating.timeRange[1], creating.selection) IN
       IF ok
       THEN Returned(Some([seg EXCEPT !.thumbnail = "generated"]), "generated")
       ELSE Returned(CatchThumbnail(seg), "failed")
    /\ UNCHANGED <<app, handlerVars, exportSettings, media, containerRect, command, run>>

InitEditor ==
    /\ HandlerInit
    /\ app = InitialApp
    /\ exportSettings = InitialSettings
    /\ \E m \in Medias : EditorInit(m)
    /\ BuilderInit

NextEditor ==
    \/ \E time \in TimeInputs : SetStartTime(time)
    \/ \E time \in TimeInputs : SetEndTime(time)
    \/ \E i \in 1..PresetCount : ApplyPreset(CROP_PRESETS[i])
    \/ \E x, y \in Positions : HandleMouseDown(x, y)
    \/ \E x, y \in Positions : HandleMouseMove(x, y)
    \/ HandleMouseUp
    \/ ResetSelection
    \/ CreateClipSegment
    \/ \E ok \in BOOLEAN : ThumbnailDone(ok)
    \/ ExecCommand
    \/ \E f \in {"input.mp4", "palette.png"} : EngineReads(f)
    \/ \E f \in {"palette.png", "output.mp4", "output.gif"} : EngineWrote(f)

SpecEditor == InitEditor /\ [][NextEditor]_vars

\* The selection in video coordinates, cut to the frame of the video: the
\* intersection of the two rectangles, of size 0 where they do not meet.
Intersection(area) ==
    LET d == Display
        vw == Whole(media.dimensions.width)
        vh == Whole(media.dimensions.height)
        x0 == Mul(Sub(area.x, d.offsetX), d.scaleX)
        y0 == Mul(Sub(area.y, d.offsetY), d.scaleY)
        left == MathMax(Whole(0), x0)
        top == MathMax(Whole(0), y0)
        right == MathMin(vw, Add(x0, Mul(area.width, d.scaleX)))
        bottom == MathMin(vh, Add(y0, Mul(area.height, d.scaleY)))
    IN  [x |-> left, y |-> top,
         width |-> MathMax(Whole(0), Sub(right, left)),
         height |-> MathMax(Whole(0), Sub(bottom, top))]

Empty(a) == a.width = Whole(0) \/ a.height = Whole(0)

\* C13: containment.  The crop rectangle of a segment created from a
\* selection satisfies 0 <= x, 0 <= y, x + width <= source width and
\* y + height <= source height.
C13_Containment ==
    (clip # None /\ creating.selection # None) =>
        LET a == clip[1].cropArea IN
        /\ ~Less(a.x, Whole(0))
        /\ ~Less(a.y, Whole(0))
        /\ ~Less(Whole(media.dimensions.width), Add(a.x, a.width))
        /\ ~Less(Whole(media.dimensions.height), Add(a.y, a.height))

\* A segment whose selection passed the right or bottom edge of the video
\* and was cut there, to a rectangle of positive size.
C13_Witness ==
    /\ clip # None
    /\ creating.selection # None
    /\ clip[1].cropArea # Converted(creating.selection[1])
    /\ Less(Whole(0), clip[1].cropArea.width)
    /\ Less(Whole(0), clip[1].cropArea.height)

\* C14: clipping, not shifting.  The crop rectangle of a segment created
\* from a selection is the intersection of the selection, in video
\* coordinates, with the frame; and it has no area when the selection does
\* not lie over the video.
C14_ClippingNotShifting ==
    (clip # None /\ creating.selection # None) =>
        LET want == Intersection(creating.selection[1])
            got == clip[1].cropArea
        IN  IF Empty(want) THEN Empty(got) ELSE got = want

\* C15: no invalid clip reaches the engine.  The command the engine is given
\* has a positive trim duration and crop filters of positive width and height.
C15_NoInvalidClipExecuted ==
    command # None =>
        /\ \A i \in 1..(Len(command[1]) - 1) :
             command[1][i] = Word("-t") => command[1][i + 1].number > 0
        /\ \A f \in Crops(command[1]) : f.crop[1] > 0 /\ f.crop[2] > 0

\* C16: minimum duration.  A createClipSegment call returns null exactly when
\* the selected duration is below 0.1 s.
C16_MinimumDuration ==
    [][(creating.pc \in {"idle", "null"} /\ creating' # creating)
         => (creating'.pc = "null" <=> getSelectedDuration < Tenth)]_vars

\* C17: thumbnail failure is non-fatal.  Once the thumbnail generator has
\* failed, the call has returned a segment with the time range it was made
\* with, the crop area computed from its selection, and media.url as its
\* thumbnail.
C17_ThumbnailFailureNonFatal ==
    creating.thumbnail = "failed" =>
        /\ creating.pc = "done"
        /\ clip # None
        /\ clip[1].startTime = creating.timeRange[1].start
        /\ clip[1].endTime = creating.timeRange[1].end
        /\ clip[1].cropArea = finalCropArea(creating.selection)
        /\ clip[1].thumbnail = "mediaUrl"

\* A segment with a crop selection whose thumbnail could not be generated.
C17_Witness ==
    /\ creating.thumbnail = "failed"
    /\ creating.selection # None
    /\ clip # None
    /\ clip[1].thumbnail = "mediaUrl"

\* The rectangle a lies inside the frame of the medium.
Inside(a) ==
    /\ ~Less(a.x, Whole(0))
    /\ ~Less(a.y, Whole(0))
    /\ ~Less(Whole(media.dimensions.width), Add(a.x, a.width))
    /\ ~Less(Whole(media.dimensions.height), Add(a.y, a.height))

\* C29: rounding keeps the crop inside the frame.  When the crop rectangle of
\* the segment lies inside the frame, the crop filters of the command built
\* for it satisfy x + width <= source width and y + height <= source height
\* in their rounded numbers.
C29_RoundingInsideFrame ==
    (command # None /\ clip # None /\ Inside(clip[1].cropArea)) =>
        \A f \in Crops(command[1]) :
            /\ f.crop[3] + f.crop[1] <= media.dimensions.width
            /\ f.crop[4] + f.crop[2] <= media.dimensions.height

\* The frame drawn for the segment is the one at the midpoint of its range.
DrawnAtMidpoint ==
    creating.drawn[1].time = Frac(clip[1].startTime + clip[1].endTime, 2)

\* C24: thumbnail region.  The thumbnail generated for a segment with a crop
\* selection shows the frame at the midpoint (start + end) / 2 of the
\* segment's time range, and the region drawn is the segment's crop rectangle.
C24_ThumbnailRegion ==
    (creating.drawn # None /\ clip # None) =>
        /\ DrawnAtMidpoint
        /\ creating.drawn[1].area = clip[1].cropArea

----------------------------------------------------------------------------
\* The time range alone: the hook's four range operations with any arguments,
\* on videos shorter than 0.1 s, of 0.3 s and longer than 10 s.

Durations == {50, 300, 12000}
TimeArguments == {-100, 0, 50, 100, 200, 300, 400, 10000, 12000, 13000}

InitTimeRange ==
    /\ HandlerInit
    /\ app = InitialApp
    /\ exportSettings = InitialSettings
    /\ \E d \in Durations : EditorInit([Video EXCEPT !.duration = d])
    /\ BuilderInit

NextTimeRange ==
    \/ \E time \in TimeArguments : SetStartTime(time)
    \/ \E time \in TimeArguments : SetEndTime(time)
    \/ \E start, end \in TimeArguments : SetTimeRange([start |-> start, end |-> end])
    \/ ResetSelection

SpecTimeRange == InitTimeRange /\ [][NextTimeRange]_vars

\* C21: time-range invariant.  For a video with a duration above 0, the
\* selected time range satisfies 0 <= start < end <= duration, initially and
\* after every setStartTime, setEndTime, setTimeRange and resetSelection.
C21_TimeRangeInvariant ==
    videoDuration > 0 =>
        /\ 0 <= timeRange.start
        /\ timeRange.start < timeRange.end
        /\ timeRange.end <= videoDuration

----------------------------------------------------------------------------
\* The placement alone: createClipSegment for sources and video areas of
\* several sizes, with the selection set through the hook's setCropArea.

FitSizes == {<<1920, 1080>>, <<1080, 1920>>, <<800, 800>>, <<4, 3>>, <<1, 2>>}

\* The display rectangle that exactly covers the displayed medium, and the
\* one that covers the video area.
DisplayedArea ==
    [x |-> Display.offsetX, y |-> Display.offsetY,
     width |-> Display.displayWidth, height |-> Display.displayHeight]
ContainerArea ==
    [x |-> Whole(0), y |-> Whole(0),
     width |-> Whole(containerRect.width), height |-> Whole(containerRect.height)]

FullFrame ==
    [x |-> Whole(0), y |-> Whole(0),
     width |-> Whole(media.dimensions.width),
     height |-> Whole(media.dimensions.height)]

InitFit ==
    /\ HandlerInit
    /\ app = InitialApp
    /\ exportSettings = InitialSettings
    /\ \E s \in FitSizes :
         media = [Video EXCEPT !.dimensions = [width |-> s[1], height |-> s[2]]]
    /\ \E s \in FitSizes : containerRect = [width |-> s[1], height |-> s[2]]
    /\ editor = InitialEditor(media.duration)
    /\ creating = NoCall
    /\ BuilderInit

NextFit ==
    \/ \E area \in {None, Some(DisplayedArea), Some(ContainerArea)} : SetCropArea(area)
    \/ CreateClipSegment
    \/ \E ok \in BOOLEAN : ThumbnailDone(ok)

SpecFit == InitFit /\ [][NextFit]_vars

\* C25: aspect-fit placement.  The displayed size fits inside the video area;
\* one of the offsets is zero and the other is not negative; the display
\* rectangle that exactly covers the displayed medium converts to the full
\* source frame, and so does the crop area of a segment created from it; a
\* 1920x1080 source in an 800x800 area is displayed 800x450 at offsets 0, 175.
C25_AspectFit ==
    LET d == Display IN
    /\ ~Less(Whole(containerRect.width), d.displayWidth)
    /\ ~Less(Whole(containerRect.height), d.displayHeight)
    /\ \/ d.offsetX = Whole(0) /\ ~Less(d.offsetY, Whole(0))
       \/ d.offsetY = Whole(0) /\ ~Less(d.offsetX, Whole(0))
    /\ finalCropArea(Some(DisplayedArea)) = FullFrame
    /\ (clip # None /\ creating.selection = Some(DisplayedArea))
       => clip[1].cropArea = FullFrame
    /\ (/\ media.dimensions = [width |-> 1920, height |-> 1080]
        /\ containerRect = [width |-> 800, height |-> 800])
       => /\ d.displayWidth = Whole(800) /\ d.displayHeight = Whole(450)
          /\ d.offsetX = Whole(0) /\ d.offsetY = Whole(175)
          /\ DisplayedArea = [x |-> Whole(0), y |-> Whole(175),
                              width |-> Whole(800), height |-> Whole(450)]

\* A segment created for the 1920x1080 source in the 800x800 area from the
\* selection {0, 175, 800, 450}: its crop area is {0, 0, 1920, 1080}.
C25_Witness ==
    /\ media.dimensions = [width |-> 1920, height |-> 1080]
    /\ containerRect = [width |-> 800, height |-> 800]
    /\ clip # None
    /\ creating.selection = Some([x |-> Whole(0), y |-> Whole(175),
                                  width |-> Whole(800), height |-> Whole(450)])
    /\ clip[1].cropArea = [x |-> Whole(0), y |-> Whole(0),
                           width |-> Whole(1920), height |-> Whole(1080)]

----------------------------------------------------------------------------
\* App: the current media, the candidate list, and the export banner

MaxUploads == 2
MaxCreated == 2
MaxExports == 2

\* The progress an export's callback hands over between its first and last.
SomeProgress == 50

\* ExportPanel and the clip cards are rendered on the clips tab of a loaded
\* medium, VideoEditor on its edit tab.
ClipsShown(a) == a.currentMedia # None /\ a.activeTab = "clips"
EditorShown(a) == a.currentMedia # None /\ a.activeTab = "edit"

\* a after React has rendered it: an ExportPanel that is unmounted loses its
\* state, and what it awaited settles without it.
Rendered(a) ==
    IF ClipsShown(a) THEN a
    ELSE [a EXCEPT !.panelExporting = FALSE,
                   !.exports = [e \in DOMAIN @ |-> [@[e] EXCEPT !.panel = FALSE]]]

AppStep(a) ==
    /\ app' = Rendered(a)
    /\ UNCHANGED <<handlerVars, exportSettings, editorVars, builderVars>>

\* FileUpload hands over a new medium.
HandleFileSuccess ==
    /\ app.currentMedia = None
    /\ app.uploads < MaxUploads
    /\ AppStep([app EXCEPT !.uploads = @ + 1,
                           !.currentMedia = Some(app.uploads + 1),
                           !.activeTab = "edit"])

HandleReupload ==
    /\ app.currentMedia # None
    /\ AppStep([app EXCEPT !.currentMedia = None, !.activeTab = "upload"])

SetActiveTab(tab) ==
    /\ app.currentMedia # None
    /\ AppStep([app EXCEPT !.activeTab = tab])

\* VideoEditor.handleAddToClips calls createClipSegment, which is suspended
\* on the thumbnail generator; the segment will carry media.id.
HandleAddToClips ==
    /\ EditorShown(app)
    /\ app.created + Len(app.adding) < MaxCreated
    /\ AppStep([app EXCEPT !.adding = Append(@, app.currentMedia[1])])

\* createClipSegment returns its segment and handleAddToClips hands it to
\* onAddClip, whether or not the editor is still shown.
HandleAddClip ==
    /\ app.adding # <<>>
    /\ LET segment == [id |-> app.created + 1, mediaId |-> Head(app.adding)] IN
       AppStep([app EXCEPT !.adding = Tail(@),
                           !.created = @ + 1,
                           !.clipSegments = <<segment>> \o @,
                           !.activeTab = "clips"])

HandleDeleteClip(clipId) ==
    /\ ClipsShown(app)
    /\ ~app.exportProgress.isExporting
    /\ \E i \in 1..Len(app.clipSegments) : app.clipSegments[i].id = clipId
    /\ AppStep([app EXCEPT !.clipSegments = SelectSeq(@, LAMBDA c : c.id # clipId)])

HandleClearClips ==
    /\ ClipsShown(app)
    /\ app.clipSegments # <<>>
    /\ AppStep([app EXCEPT !.clipSegments = <<>>])

\* The start of handleSingleExport / handleBatchExport: the banner is set and
\* the export is called with currentMedia; the export's first event, handed
\* over before its first suspension, is 'preparing' or 'processing' with 0.
Exporting(a, clips, panel, status) ==
    [a EXCEPT !.exportProgress = [isExporting |-> TRUE, progress |-> 0, status |-> status],
              !.exports = Append(@, [media |-> a.currentMedia[1], clips |-> clips,
                                     awaited |-> TRUE, panel |-> panel])]

\* The export button of a clip card.
HandleSingleExport(i, status) ==
    /\ ClipsShown(app)
    /\ ~app.exportProgress.isExporting
    /\ i \in 1..Len(app.clipSegments)
    /\ Len(app.exports) < MaxExports
    /\ AppStep(Exporting(app, <<app.clipSegments[i]>>, FALSE, status))

\* The batch button of ExportPanel, through the panel's handleBatchExport.
HandleBatchExport(status) ==
    /\ ClipsShown(app)
    /\ ~app.panelExporting
    /\ app.clipSegments # <<>>
    /\ Len(app.exports) < MaxExports
    /\ AppStep([Exporting(app, app.clipSegments, TRUE, status)
                   EXCEPT !.panelExporting = TRUE])

\* The progress callback App gave to export e is invoked while some export
\* is under way.
OnProgress(e, status) ==
    /\ e \in 1..Len(app.exports)
    /\ \E k \in 1..Len(app.exports) : app.exports[k].awaited
    /\ AppStep([app EXCEPT !.exportProgress =
                   [isExporting |-> TRUE, progress |-> SomeProgress, status |-> status]])

\* The promise of export e settles: the banner shows the outcome, a reset
\* timer is scheduled (after 3 s, or 5 s for a failure), and the panel that
\* awaits the export clears its isExporting.
ExportSettled(e, ok) ==
    /\ e \in 1..Len(app.exports)
    /\ app.exports[e].awaited
    /\ AppStep([app EXCEPT
          !.exports[e].awaited = FALSE,
          !.exportProgress = IF ok
                             THEN [isExporting |-> FALSE, progress |-> 100, status |-> "completed"]
                             ELSE [isExporting |-> FALSE, progress |-> 0, status |-> "error"],
          !.timers = @ + 1,
          !.panelExporting = IF app.exports[e].panel THEN FALSE ELSE @])

\* A reset timer fires.
ResetTimer ==
    /\ app.timers > 0
    /\ AppStep([app EXCEPT
          !.timers = @ - 1,
          !.exportProgress = [isExporting |-> FALSE, progress |-> 0, status |-> "preparing"]])

NextApp ==
    \/ HandleFileSuccess
    \/ HandleReupload
    \/ \E tab \in {"edit", "clips"} : SetActiveTab(tab)
    \/ HandleAddToClips
    \/ HandleAddClip
    \/ \E clipId \in 1..MaxCreated : HandleDeleteClip(clipId)
    \/ HandleClearClips
    \/ \E i \in 1..MaxCreated, status \in {"preparing", "processing"} : HandleSingleExport(i, status)
    \/ \E status \in {"preparing", "processing"} : HandleBatchExport(status)
    \/ \E e \in 1..MaxExports, status \in {"preparing", "processing"} : OnProgress(e, status)
    \/ \E e \in 1..MaxExports, ok \in BOOLEAN : ExportSettled(e, ok)
    \/ ResetTimer

SpecApp == Init /\ [][NextApp]_vars

\* C26: clip/source consistency.  Every clip of the candidate list carries
\* the id of the current media, and every export was called with clips of
\* the media it was called with.
C26_ClipSourceConsistency ==
    /\ app.currentMedia # None =>
         \A i \in 1..Len(app.clipSegments) :
             app.clipSegments[i].mediaId = app.currentMedia[1]
    /\ \A e \in 1..Len(app.exports) :
         \A i \in 1..Len(app.exports[e].clips) :
             app.exports[e].clips[i].mediaId = app.exports[e].media

\* C27: UI export guard.  While the promise of an export that App started is
\* awaited, exportProgress.isExporting is true.
C27_ExportGuard ==
    (\E e \in 1..Len(app.exports) : app.exports[e].awaited)
        => app.exportProgress.isExporting

====
